---- MODULE Spec2Model ----
(***************************************************************************)
(* People-in-News backend: the run coordinator (main.py: _run_lock,        *)
(* on_startup, periodic_refresh, refresh_news, _shutdown), the             *)
(* identity-resolving store (crud.py, models.py), the name validator       *)
(* (validators.py), the pipeline run with its notification fan-out         *)
(* (main.py: process_news_pipeline, run_pipeline_and_ingest,               *)
(* _notify_update) and the image cache (image_fetch.py).                   *)
(*                                                                         *)
(* The process is one asyncio event loop: the code of a task between two   *)
(* suspension points runs without interleaving, so every action below is   *)
(* one such stretch of one task.                                           *)
(***************************************************************************)
EXTENDS Integers, Sequences, FiniteSets, TLC

(***************************************************************************)
(* Bounds.                                                                 *)
(***************************************************************************)
\* number of clients that POST /api/refresh-news (each may post again and again)
NumManual == 2
\* number of cards persisted in one behaviour, over all its runs
MaxCards == 4

VARIABLES
    locked,        \* _run_lock._locked
    waiters,       \* _run_lock._waiters: the futures of the tasks queued in acquire()
    pc,            \* where each task is suspended
    cancelReq,     \* _update_task.cancel() was called and not yet delivered
    result,        \* what each task last returned or logged
    people,            \* table people: rows [id, name, image_url]
    articles,          \* table articles: rows [id, title, summary, link, ...]
    person_articles,   \* table person_articles: rows [id, person_id, article_id, is_primary]
    news_cards_db,     \* main.news_cards_db: the cards of the last pipeline run
    ingested,          \* number of cards persisted so far (bounded by MaxCards)
    repeated,          \* the last run had the same cards as the run before it
    arg,           \* the value is_valid_person_name is called with
    called,        \* is_valid_person_name has returned
    verdict,       \* what it returned
    clock,         \* time.time(), in seconds
    IMAGE_CACHE,   \* image_fetch._IMAGE_CACHE: entries [key, expires_at, url]
    image_pc,      \* generate_person_image: "idle", or "lookup" while it awaits the network
    image_name,    \* the name of the resolution under way, or of the last one
    image_result,  \* what the last resolution returned
    calls,         \* number of calls of generate_person_image
    lookups,       \* number of resolutions that went to the network
    lookup,        \* what Wikipedia, Commons, the filter and ImgBB answer to a resolution
    queried,       \* the image sources the last resolution queried, in order
    run_pc,        \* process_news_pipeline: "idle", or "assemble" while its loop awaits
    fetched,       \* articles: what fetch_news_articles returned to the last run
    idx,           \* number of articles the loop is done with
    new_cards,     \* new_cards: the cards assembled so far by the run under way
    subscribers,   \* main._subscribers: the registered queues
    queue,         \* the messages waiting in each subscriber's asyncio.Queue
    dead,          \* the queues whose put raised in the last _notify_update
    fetch_status,  \* what the news API answered to the last run
    broadcasts,    \* number of calls of _notify_update
    run_result,    \* how the last run ended
    runs,          \* number of runs started
    fetched_total, \* number of articles fetched, over all runs
    failed_at,     \* the card at which the last ingest raised (0: it did not raise)
    conn           \* where the GET /events request of each queue is

gateVars == <<locked, waiters, pc, cancelReq, result>>
storeVars == <<people, articles, person_articles, news_cards_db, ingested, repeated>>
validatorVars == <<arg, called, verdict>>
\* the state of the components a coordinator or store step does not touch
imageVars == <<clock, IMAGE_CACHE, image_pc, image_name, image_result, calls, lookups,
               lookup, queried>>
runVars == <<run_pc, fetched, idx, new_cards, subscribers, queue, dead, fetch_status,
             broadcasts, run_result, runs, fetched_total, failed_at, conn>>
otherVars == <<validatorVars, imageVars, runVars>>
vars == <<locked, waiters, pc, cancelReq, result,
          people, articles, person_articles, news_cards_db, ingested, repeated,
          arg, called, verdict,
          clock, IMAGE_CACHE, image_pc, image_name, image_result, calls, lookups,
          lookup, queried,
          run_pc, fetched, idx, new_cards, subscribers, queue, dead, fetch_status,
          broadcasts, run_result, runs, fetched_total, failed_at, conn>>

(***************************************************************************)
(* Tasks.                                                                  *)
(***************************************************************************)
ManualNames == <<"m1", "m2", "m3", "m4">>
Manual == {ManualNames[i] : i \in 1 .. NumManual}
Tasks == {"startup", "periodic", "shutdown"} \cup Manual

\* a task between lock admission and lock release: suspended in the news
\* fetch, or in one of the extraction / image calls of card assembly, or
\* back from run_pipeline_and_ingest and at `await _notify_update(...)`
RunStages == {"fetch", "assemble", "notify"}

InFlight == {t \in Tasks : pc[t] \in RunStages}

\* FastAPI runs the startup handlers before it serves requests and the
\* shutdown handlers after it stopped accepting them
Serving == pc["startup"] = "done" /\ pc["shutdown"] = "idle"

(***************************************************************************)
(* asyncio.Lock, as `async with _run_lock` uses it.                        *)
(***************************************************************************)
WaiterOf(t) == CHOOSE i \in 1 .. Len(waiters) : waiters[i].task = t

RemoveAt(s, i) == SubSeq(s, 1, i - 1) \o SubSeq(s, i + 1, Len(s))

FastPathNoQueueCheck(l, w) == ~l

\* Lock.acquire's first test: free, and nobody (uncancelled) queued before us
FastPath(l, w) == ~l /\ \A i \in 1 .. Len(w) : w[i].st = "cancelled"

\* Lock._wake_up_first: set the result of the first future unless it is done
WakeUpFirst(w) ==
    IF w # <<>> /\ w[1].st = "pending" THEN [w EXCEPT ![1].st = "done"] ELSE w

\* `async with _run_lock:` entered by task t: either the lock is taken at
\* once and the run starts (it suspends in the news fetch), or t queues
Acquire(t) ==
    IF FastPath(locked, waiters)
    THEN /\ locked' = TRUE
         /\ waiters' = waiters
         /\ pc' = [pc EXCEPT ![t] = "fetch"]
    ELSE /\ locked' = locked
         /\ waiters' = Append(waiters, [task |-> t, st |-> "pending"])
         /\ pc' = [pc EXCEPT ![t] = "waiting"]

ReleaseOnlyOnSuccess(how) ==
    IF how = "ok" THEN <<FALSE, WakeUpFirst(waiters)>> ELSE <<locked, waiters>>

\* the lock's state after __aexit__ on exit path `how`: Lock.release
Release(how) == <<FALSE, WakeUpFirst(waiters)>>

GateReleasedBeforeNotify(how) == Release(how)

\* the lock's state when run_pipeline_and_ingest has returned: the
\* `async with` block goes on to _notify_update, nothing is released
GateAtNotify(how) == <<locked, waiters>>

\* where task t goes when its run is over, and what it reports
AfterRun(t, how) ==
    CASE t = "startup"  -> [at |-> "done", res |-> IF how = "ok" THEN "ok" ELSE "error"]
      [] t = "periodic" -> IF how = "cancelled"
                           THEN [at |-> "ended", res |-> "cancelled_in_run"]
                           ELSE [at |-> "sleep", res |-> IF how = "ok" THEN "ok" ELSE "error"]
      [] OTHER          -> [at |-> "idle", res |-> IF how = "ok" THEN "ok" ELSE "error"]

\* the run of task t leaves the `async with` block on exit path `how`
ExitRun(t, how) ==
    /\ locked' = Release(how)[1]
    /\ waiters' = Release(how)[2]
    /\ pc' = [pc EXCEPT ![t] = AfterRun(t, how).at,
                        !["periodic"] = IF t = "startup" THEN "sleep"
                                        ELSE IF t = "periodic" THEN AfterRun(t, how).at
                                        ELSE @]
    /\ result' = [result EXCEPT ![t] = AfterRun(t, how).res]

(***************************************************************************)
(* Text.  A string is a sequence of one-character strings, so that strip,  *)
(* lower and the comparison of names are computed, not assumed.            *)
(***************************************************************************)
\* Python None, SQL NULL
Null == <<"NULL">>

\* Python truthiness of an Optional value: neither None nor empty
Truthy(v) == v # Null /\ v # <<>>

RECURSIVE LStrip(_)
LStrip(s) == IF s # <<>> /\ Head(s) = " " THEN LStrip(Tail(s)) ELSE s

RECURSIVE RStrip(_)
RStrip(s) == IF s # <<>> /\ s[Len(s)] = " " THEN RStrip(SubSeq(s, 1, Len(s) - 1)) ELSE s

\* str.strip()
Strip(s) == RStrip(LStrip(s))

UpperCase == <<"A", "B", "C", "D", "E", "F", "G", "H", "I", "J", "K", "L", "M",
               "N", "O", "P", "Q", "R", "S", "T", "U", "V", "W", "X", "Y", "Z">>
LowerCase == <<"a", "b", "c", "d", "e", "f", "g", "h", "i", "j", "k", "l", "m",
               "n", "o", "p", "q", "r", "s", "t", "u", "v", "w", "x", "y", "z">>

LowerChar(ch) ==
    IF \E i \in 1 .. 26 : UpperCase[i] = ch
    THEN LowerCase[CHOOSE i \in 1 .. 26 : UpperCase[i] = ch]
    ELSE ch

\* str.lower()
Lower(s) == [i \in 1 .. Len(s) |-> LowerChar(s[i])]

\* runs of whitespace collapsed to one space
RECURSIVE CollapseSpaces(_)
CollapseSpaces(s) ==
    IF Len(s) < 2 THEN s
    ELSE IF s[1] = " " /\ s[2] = " " THEN CollapseSpaces(Tail(s))
    ELSE <<Head(s)>> \o CollapseSpaces(Tail(s))

\* the canonical key of a person name: trimmed, whitespace-collapsed, lower-cased
CanonicalName(s) == Lower(CollapseSpaces(Strip(s)))

\* A published_at string is a sequence of tokens: a date-time, then its zone
\* suffix.  c.published_at.replace("Z", "+00:00")
ReplaceZ(s) == [i \in 1 .. Len(s) |-> IF s[i] = "Z" THEN "+00:00" ELSE s[i]]

DateTimes == {"2025-10-10T13:28:17", "2025-10-11T08:00:00"}

\* datetime.fromisoformat, None where it raises
FromIsoFormat(s) ==
    IF Len(s) = 2 /\ s[1] \in DateTimes /\ s[2] = "+00:00" THEN <<"utc", s[1]>>
    ELSE IF Len(s) = 1 /\ s[1] \in DateTimes THEN <<"naive", s[1]>>
    ELSE Null

(***************************************************************************)
(* The store (models.py) and a Session on it (database.py: autoflush off). *)
(***************************************************************************)
MaxOf(S) == CHOOSE x \in S : \A y \in S : y <= x

\* the autoincremented primary key of the next row
NextId(rows) == IF rows = {} THEN 1 ELSE MaxOf({r.id : r \in rows}) + 1

\* SessionLocal(): the session starts from the committed rows; nothing is
\* pending and no relationship collection is loaded
OpenSession(P, A, PA) ==
    [people |-> P, articles |-> A, person_articles |-> PA,
     pending |-> {}, loaded |-> {}, seen |-> {}]

\* db.flush(): the pending person_articles rows are inserted
Flush(s) == [s EXCEPT !.person_articles = @ \cup s.pending, !.pending = {}]

\* select(models.Person).where(models.Person.name == name)
SelectPerson(rows, name) == {p \in rows : p.name = name}

GetOrCreatePersonOverwrite(s, name, image_url) ==
    LET found == SelectPerson(s.people, name) IN
    IF found # {}
    THEN LET p == CHOOSE x \in found : TRUE
         IN  [s |-> [s EXCEPT !.people = (@ \ {p}) \cup {[p EXCEPT !.image_url = image_url]}],
              id |-> p.id]
    ELSE LET p == [id |-> NextId(s.people), name |-> name, image_url |-> image_url]
         IN  [s |-> Flush([s EXCEPT !.people = @ \cup {p}]), id |-> p.id]

\* crud.get_or_create_person
GetOrCreatePerson(s, name, image_url) ==
    LET found == SelectPerson(s.people, name) IN
    IF found # {}
    THEN LET p == CHOOSE x \in found : TRUE
             q == IF Truthy(image_url) /\ ~Truthy(p.image_url)
                  THEN [p EXCEPT !.image_url = image_url] ELSE p
         IN  [s |-> [s EXCEPT !.people = (@ \ {p}) \cup {q}], id |-> p.id]
    ELSE LET p == [id |-> NextId(s.people), name |-> name, image_url |-> image_url]
         IN  [s |-> Flush([s EXCEPT !.people = @ \cup {p}]), id |-> p.id]

SelectArticleNone(rows, link) == {}

\* select(models.Article).where(models.Article.link == link)
SelectArticle(rows, link) == {a \in rows : a.link = link}

UpdateArticleFillOnly(art, title, summary, published_at, image_url, source_name) ==
    [art EXCEPT
        !.published_at = IF ~Truthy(@) /\ Truthy(published_at) THEN published_at ELSE @,
        !.image_url    = IF ~Truthy(@) /\ Truthy(image_url) THEN image_url ELSE @,
        !.source_name  = IF ~Truthy(@) /\ Truthy(source_name) THEN source_name ELSE @,
        !.title        = IF ~Truthy(@) /\ Truthy(title) THEN title ELSE @,
        !.summary      = IF ~Truthy(@) /\ Truthy(summary) THEN summary ELSE @]

UpdateArticleOverwrite(art, title, summary, published_at, image_url, source_name) ==
    [art EXCEPT
        !.published_at = published_at,
        !.image_url    = image_url,
        !.source_name  = source_name,
        !.title        = IF Truthy(title) /\ @ # title THEN title ELSE @,
        !.summary      = IF Truthy(summary) /\ @ # summary THEN summary ELSE @]

\* get_or_create_article, the "light updates" of a row that exists
UpdateArticle(art, title, summary, published_at, image_url, source_name) ==
    [art EXCEPT
        !.published_at = IF ~Truthy(@) /\ Truthy(published_at) THEN published_at ELSE @,
        !.image_url    = IF ~Truthy(@) /\ Truthy(image_url) THEN image_url ELSE @,
        !.source_name  = IF ~Truthy(@) /\ Truthy(source_name) THEN source_name ELSE @,
        !.title        = IF Truthy(title) /\ @ # title THEN title ELSE @,
        !.summary      = IF Truthy(summary) /\ @ # summary THEN summary ELSE @]

\* crud.get_or_create_article
GetOrCreateArticle(s, title, summary, link, published_at, image_url, source_name) ==
    LET found == SelectArticle(s.articles, link) IN
    IF found # {}
    THEN LET a == CHOOSE x \in found : TRUE
             b == UpdateArticle(a, title, summary, published_at, image_url, source_name)
         IN  [s |-> [s EXCEPT !.articles = (@ \ {a}) \cup {b}], id |-> a.id]
    ELSE LET a == [id |-> NextId(s.articles), title |-> title, summary |-> summary,
                   link |-> link, source_name |-> source_name,
                   published_at |-> published_at, image_url |-> image_url]
         IN  [s |-> Flush([s EXCEPT !.articles = @ \cup {a}]), id |-> a.id]

\* article.person_articles: the relationship collection, loaded from the
\* flushed rows on its first access in the session and then kept as loaded
Collection(s, article_id) ==
    IF article_id \in s.loaded
    THEN {pa \in s.seen : pa.article_id = article_id}
    ELSE {pa \in s.person_articles : pa.article_id = article_id}

LinkAlways(s, person_id, article_id) ==
    [s EXCEPT !.pending = @ \cup
        {[id |-> NextId(s.person_articles \cup s.pending), person_id |-> person_id,
          article_id |-> article_id, is_primary |-> TRUE]}]

\* crud.link_person_article: the row is added to the session only (db.add),
\* not to the loaded collection
LinkPersonArticle(s, person_id, article_id) ==
    LET coll == Collection(s, article_id)
        t == [s EXCEPT !.loaded = @ \cup {article_id}, !.seen = @ \cup coll]
    IN  IF \E pa \in coll : pa.person_id = person_id
        THEN t
        ELSE [t EXCEPT !.pending = @ \cup
                {[id |-> NextId(s.person_articles \cup s.pending), person_id |-> person_id,
                  article_id |-> article_id, is_primary |-> TRUE]}]

\* the published_at of a card, as ingest_newscards reads it
ParsePublished(c) ==
    IF Truthy(c.published_at) THEN FromIsoFormat(ReplaceZ(c.published_at)) ELSE Null

\* the title and the summary ingest_newscards supplies for a card
CardTitle(c) == IF Truthy(c.catchy_title) THEN c.catchy_title ELSE c.name
CardSummary(c) == IF Truthy(c.summary) THEN c.summary ELSE <<>>

\* one iteration of the loop of crud.ingest_newscards
IngestCard(s, c) ==
    LET p == GetOrCreatePerson(s, Strip(c.name), c.image_url)
        a == GetOrCreateArticle(p.s, CardTitle(c), CardSummary(c), c.link,
                                ParsePublished(c), c.image_url, Null)
    IN  LinkPersonArticle(a.s, p.id, a.id)

RECURSIVE IngestLoop(_, _)
IngestLoop(s, cards) ==
    IF cards = <<>> THEN s ELSE IngestLoop(IngestCard(s, Head(cards)), Tail(cards))

\* crud.ingest_newscards: the loop, then db.commit()
IngestNewscards(P, A, PA, cards) == Flush(IngestLoop(OpenSession(P, A, PA), cards))

(***************************************************************************)
(* The cards a pipeline run can assemble.  Names are stripped and valid,   *)
(* the image is never empty (generate_person_image falls back to an        *)
(* avatar), title and summary may be empty, published_at is any string.    *)
(***************************************************************************)
NameAB == <<"a", " ", "b">>
NameCase == <<"A", " ", "b">>
NameWide == <<"a", " ", " ", "b">>

LinkX == <<"x">>
LinkY == <<"y">>

Card(name, link, catchy_title, summary, published_at, image_url) ==
    [name |-> name, image_url |-> image_url, catchy_title |-> catchy_title,
     summary |-> summary, link |-> link, published_at |-> published_at]

Cards ==
    { \* one person in two articles
      Card(NameAB, LinkX, <<"t">>, <<"s">>, <<>>, <<"i">>),
      Card(NameAB, LinkY, <<"t">>, <<"s">>, <<>>, <<"i">>),
      \* the same name in another letter case, no title and no summary extracted
      Card(NameCase, LinkX, <<>>, <<>>, <<>>, <<"i">>),
      \* the same name with a doubled inner space
      Card(NameWide, LinkX, <<"t">>, <<"s">>, <<>>, <<"i">>),
      \* the first article again, with a publish time
      Card(NameAB, LinkX, <<"t">>, <<"s">>, <<"2025-10-10T13:28:17", "Z">>, <<"i">>),
      \* ... with another summary, publish time and image
      Card(NameAB, LinkX, <<"t">>, <<"r">>, <<"2025-10-11T08:00:00", "+00:00">>, <<"k">>),
      \* ... with a publish time that is no ISO date
      Card(NameAB, LinkX, <<"t">>, <<"s">>, <<"yesterday">>, <<"i">>) }

CardLists(n) == UNION {[1 .. k -> Cards] : k \in 0 .. n}

StoreInit ==
    /\ people = {}
    /\ articles = {}
    /\ person_articles = {}
    /\ news_cards_db = <<>>
    /\ ingested = 0
    /\ repeated = FALSE

\* main.run_pipeline_and_ingest: the pipeline assembles the cards `cards` and
\* replaces news_cards_db, and the cards, if any, are persisted
RunPipelineAndIngest(cards) ==
    /\ ingested + Len(cards) <= MaxCards
    /\ news_cards_db' = cards
    /\ LET s == IF cards # <<>>
                THEN IngestNewscards(people, articles, person_articles, cards)
                ELSE OpenSession(people, articles, person_articles)
       IN  /\ people' = s.people
           /\ articles' = s.articles
           /\ person_articles' = s.person_articles
    /\ ingested' = ingested + Len(cards)
    /\ repeated' = (cards # <<>> /\ cards = news_cards_db)
    /\ UNCHANGED <<gateVars, otherVars>>

StoreNext == \E cards \in CardLists(MaxCards - ingested) : RunPipelineAndIngest(cards)

(***************************************************************************)
(* The name validator (validators.py).  A Python value is a record of its  *)
(* type and its content, so that null and non-string arguments are values  *)
(* the validator can be called with.                                       *)
(***************************************************************************)
PyNone == [t |-> "NoneType", v |-> <<>>]
PyStr(s) == [t |-> "str", v |-> s]
\* an int, by its decimal digits; a list of strings, by its items
PyInt(digits) == [t |-> "int", v |-> digits]
PyList(items) == [t |-> "list", v |-> items]

\* Python truthiness: `not x` is false for these
PyTruthy(x) ==
    CASE x.t = "NoneType" -> FALSE
      [] x.t = "int"      -> x.v # <<"0">>
      [] OTHER            -> x.v # <<>>

BANNED_WORDS ==
    { <<"t", "a", "l", "i", "b", "a", "n">>,
      <<"i", "s", "i", "s">>,
      <<"a", "l", "-", "q", "a", "e", "d", "a">>,
      <<"g", "o", "v", "e", "r", "n", "m", "e", "n", "t">>,
      <<"c", "a", "b", "i", "n", "e", "t">>,
      <<"a", "r", "m", "y">>,
      <<"p", "o", "l", "i", "c", "e">>,
      <<"c", "o", "m", "m", "i", "t", "t", "e", "e">>,
      <<"b", "o", "a", "r", "d">>,
      <<"m", "i", "n", "i", "s", "t", "r", "y">>,
      <<"f", "o", "r", "c", "e", "s">> }

\* `bad in low`: bad is a substring of low
IsSubstring(bad, low) ==
    \E i \in 1 .. Len(low) - Len(bad) + 1 : SubSeq(low, i, i + Len(bad) - 1) = bad

ContainsBannedExact(text) == text = <<>> \/ Lower(text) \in BANNED_WORDS

\* validators._contains_banned
ContainsBanned(text) ==
    IF text = <<>> THEN TRUE
    ELSE LET low == Lower(text) IN \E bad \in BANNED_WORDS : IsSubstring(bad, low)

AcceptAnyName(name) == TRUE

\* validators.is_valid_person_name
IsValidPersonName(name) ==
    IF ~PyTruthy(name) \/ name.t # "str" THEN FALSE ELSE ~ContainsBanned(name.v)

(***************************************************************************)
(* The values the validator is called with.                                *)
(***************************************************************************)
\* longest padding put before and after a word
MaxPad == 1

UpperChar(ch) ==
    IF \E i \in 1 .. 26 : LowerCase[i] = ch
    THEN UpperCase[CHOOSE i \in 1 .. 26 : LowerCase[i] = ch]
    ELSE ch

Upper(s) == [i \in 1 .. Len(s) |-> UpperChar(s[i])]
Capitalize(s) == [i \in 1 .. Len(s) |-> IF i = 1 THEN UpperChar(s[i]) ELSE s[i]]

Hamas == <<"H", "a", "m", "a", "s">>
TalibanSpokesperson == 
    <<"T", "a", "l", "i", "b", "a", "n", " ", "S", "p", "o", "k", "e", "s", "p", "e", "r", "s", "o", "n">>
MalalaYousafzai == 
    <<"M", "a", "l", "a", "l", "a", " ", "Y", "o", "u", "s", "a", "f", "z", "a", "i">>

Pads == UNION {[1 .. k -> {"x", " "}] : k \in 0 .. MaxPad}

\* deny-listed and other words, in lower, upper and capitalized letters,
\* alone and inside a longer name
Words == BANNED_WORDS \cup {Lower(Hamas), <<"u", "n", "k", "n", "o", "w", "n">>, <<"a", "r", "m">>}

PaddedNames ==
    {pre \o w \o post : pre \in Pads, post \in Pads,
                        w \in UNION {{x, Upper(x), Capitalize(x)} : x \in Words}}

ValidatorArgs ==
    {PyNone, PyInt(<<"0">>), PyInt(<<"7">>), PyList(<<>>), PyList(<<"army">>),
     PyStr(<<>>), PyStr(Hamas), PyStr(TalibanSpokesperson), PyStr(MalalaYousafzai)}
    \cup {PyStr(n) : n \in PaddedNames}

\* no call of the validator is under way
ValidatorInit ==
    /\ arg = PyNone
    /\ called = FALSE
    /\ verdict = FALSE

\* is_valid_person_name(arg) returns
CallIsValidPersonName ==
    /\ ~called
    /\ called' = TRUE
    /\ verdict' = IsValidPersonName(arg)
    /\ UNCHANGED <<arg, gateVars, storeVars, imageVars, runVars>>

(***************************************************************************)
(* The image cache and the resolution of a person image (image_fetch.py).  *)
(***************************************************************************)
IMAGE_CACHE_TTL_SECONDS == 604800

\* the clock runs through at most MaxLifetimes cache lifetimes and
\* MaxSeconds single seconds
MaxLifetimes == 1
MaxSeconds == 1
\* number of calls of generate_person_image in one behaviour
MaxCalls == 3

\* person_name.strip().lower()
NameKey(person_name) == Lower(Strip(person_name))

\* image_fetch._avatar: the name with '+' for ' ', inside the placeholder URL
Avatar(person_name) ==
    <<"https://ui-avatars.com/api/?name=">>
        \o [i \in 1 .. Len(person_name) |-> IF person_name[i] = " " THEN "+" ELSE person_name[i]]

GetCachedNoExpiry(cache, person_name, t) ==
    LET hit == {e \in cache : e.key = NameKey(person_name)}
    IN  IF hit = {} THEN [url |-> Null, cache |-> cache]
        ELSE [url |-> (CHOOSE e \in hit : TRUE).url, cache |-> cache]

\* image_fetch._get_cached at time t: the URL or None, and the cache it
\* leaves (an expired entry is popped)
GetCached(cache, person_name, t) ==
    LET hit == {e \in cache : e.key = NameKey(person_name)}
    IN  IF hit = {} THEN [url |-> Null, cache |-> cache]
        ELSE LET e == CHOOSE x \in hit : TRUE
             IN  IF t > e.expires_at
                 THEN [url |-> Null, cache |-> cache \ {e}]
                 ELSE [url |-> e.url, cache |-> cache]

\* image_fetch._set_cached at time t
SetCached(cache, person_name, url, t) ==
    {e \in cache : e.key # NameKey(person_name)}
        \cup {[key |-> NameKey(person_name),
               expires_at |-> t + IMAGE_CACHE_TTL_SECONDS, url |-> url]}

\* what the lookups of one resolution end with: the source image found on
\* Wikipedia or Commons (the filter failed), the filtered image hosted on
\* ImgBB, the filtered image as a data URL (the upload failed), or nothing
\* (no image found, or a lookup raised)
LookupOutcomes == {"source", "hosted", "data", "none"}

\* the URL generate_person_image returns and caches for an outcome
FinalUrl(person_name, outcome) ==
    CASE outcome = "source" -> <<"http://upload.wikimedia.org/">> \o NameKey(person_name)
      [] outcome = "hosted" -> <<"https://i.ibb.co/">> \o NameKey(person_name)
      [] outcome = "data"   -> <<"data:image/jpeg;base64,">> \o NameKey(person_name)
      [] OTHER              -> Avatar(person_name)

\* the names generate_person_image is called with: two spellings of one
\* name, another name, and a name the validator rejects
ImageNames == {NameAB, NameCase, <<"c">>, <<"a", "r", "m", "y">>}

\* how a query of an image source can end: the request raises (no
\* connection, timeout), raise_for_status raises on an error status, the
\* answer has no usable image, or it has the URL of one
SourceAnswers == {"raises", "http_error", "nothing", "url"}

\* the answers to the requests of one resolution
Lookups ==
    [primary : SourceAnswers, fallback : SourceAnswers,
     filter : {"ok", "fails"}, upload : {"ok", "fails"}]

\* no resolution was made
NoLookup == [primary |-> "nothing", fallback |-> "nothing", filter |-> "fails", upload |-> "fails"]

\* the URL a source has for a name: the original or thumbnail of the
\* Wikipedia page image, the 600px thumburl of the Commons file
SourceUrl(person_name, source) ==
    IF source = "wikipedia"
    THEN FinalUrl(person_name, "source")
    ELSE FinalUrl(person_name, "source") \o <<"/600px">>

\* _fetch_wikipedia_primary_image and _fetch_commons_image_search: the value
\* returned, or the exception of client.get or of raise_for_status
FetchSource(person_name, source, answer) ==
    IF answer \in {"raises", "http_error"} THEN [raised |-> TRUE, url |-> Null]
    ELSE IF answer = "nothing" THEN [raised |-> FALSE, url |-> Null]
    ELSE [raised |-> FALSE, url |-> SourceUrl(person_name, source)]

\* image_fetch._anime_filter: None when the download or the filter raises,
\* else the hosted URL of upload_to_imgbb, else (the upload returned None)
\* the filtered image as a data URL
AnimeFilter(person_name, l) ==
    IF l.filter = "fails" THEN Null
    ELSE IF l.upload = "ok" THEN FinalUrl(person_name, "hosted")
    ELSE FinalUrl(person_name, "data")

\* generate_person_image after the cache miss: the try block with the two
\* sources and the filter, and the placeholder after it.  An exception of
\* either source leaves the try block.
GeneratePersonImageLookups(person_name, l) ==
    LET p == FetchSource(person_name, "wikipedia", l.primary)
        c == FetchSource(person_name, "commons", l.fallback)
    IN  IF p.raised
        THEN [url |-> Avatar(person_name), queried |-> <<"wikipedia">>]
        ELSE IF Truthy(p.url)
        THEN [url |-> IF Truthy(AnimeFilter(person_name, l))
                      THEN AnimeFilter(person_name, l) ELSE p.url,
              queried |-> <<"wikipedia">>]
        ELSE IF c.raised \/ ~Truthy(c.url)
        THEN [url |-> Avatar(person_name), queried |-> <<"wikipedia", "commons">>]
        ELSE [url |-> IF Truthy(AnimeFilter(person_name, l))
                      THEN AnimeFilter(person_name, l) ELSE c.url,
              queried |-> <<"wikipedia", "commons">>]

ImageInit ==
    /\ clock = 0
    /\ IMAGE_CACHE = {}
    /\ image_pc = "idle"
    /\ image_name = <<>>
    /\ image_result = Null
    /\ calls = 0
    /\ lookups = 0
    /\ lookup = NoLookup
    /\ queried = <<>>

\* generate_person_image(person_name), up to its first network await: the
\* name is validated, a cached URL is returned, or the lookups start
ResolveBegin(person_name) ==
    /\ image_pc = "idle"
    /\ calls < MaxCalls
    /\ calls' = calls + 1
    /\ image_name' = person_name
    /\ IF ~IsValidPersonName(PyStr(person_name))
       THEN \* raise ValueError
            /\ image_result' = Null
            /\ UNCHANGED <<IMAGE_CACHE, image_pc, lookups>>
       ELSE LET cached == GetCached(IMAGE_CACHE, person_name, clock)
            IN  /\ IMAGE_CACHE' = cached.cache
                /\ IF Truthy(cached.url)
                   THEN /\ image_result' = cached.url
                        /\ UNCHANGED <<image_pc, lookups>>
                   ELSE /\ image_pc' = "lookup"
                        /\ lookups' = lookups + 1
                        /\ UNCHANGED image_result
    /\ UNCHANGED <<clock, lookup, queried, gateVars, storeVars, validatorVars, runVars>>

\* the lookups of generate_person_image are over: the URL chosen is cached
\* and returned
ResolveEnd(outcome) ==
    /\ image_pc = "lookup"
    /\ image_pc' = "idle"
    /\ image_result' = FinalUrl(image_name, outcome)
    /\ IMAGE_CACHE' = SetCached(IMAGE_CACHE, image_name, FinalUrl(image_name, outcome), clock)
    /\ UNCHANGED <<clock, image_name, calls, lookups, lookup, queried,
                   gateVars, storeVars, validatorVars, runVars>>

\* time passes: a second, or a whole cache lifetime
Tick(d) ==
    /\ IF d = 1 THEN clock % IMAGE_CACHE_TTL_SECONDS < MaxSeconds
                ELSE clock \div IMAGE_CACHE_TTL_SECONDS < MaxLifetimes
    /\ clock' = clock + d
    /\ UNCHANGED <<IMAGE_CACHE, image_pc, image_name, image_result, calls, lookups,
                   lookup, queried, gateVars, storeVars, validatorVars, runVars>>

\* generate_person_image(image_name) as a whole, the network answering `lookup`
GeneratePersonImage ==
    /\ image_pc = "idle"
    /\ calls = 0
    /\ calls' = 1
    /\ IF ~IsValidPersonName(PyStr(image_name))
       THEN \* raise ValueError
            /\ image_result' = Null
            /\ UNCHANGED <<IMAGE_CACHE, lookups, queried>>
       ELSE LET cached == GetCached(IMAGE_CACHE, image_name, clock)
                r == GeneratePersonImageLookups(image_name, lookup)
            IN  IF Truthy(cached.url)
                THEN /\ image_result' = cached.url
                     /\ IMAGE_CACHE' = cached.cache
                     /\ UNCHANGED <<lookups, queried>>
                ELSE /\ image_result' = r.url
                     /\ IMAGE_CACHE' = SetCached(cached.cache, image_name, r.url, clock)
                     /\ lookups' = lookups + 1
                     /\ queried' = r.queried
    /\ UNCHANGED <<clock, image_pc, image_name, lookup, gateVars, storeVars, validatorVars, runVars>>

ImageNext ==
    \/ \E n \in ImageNames : ResolveBegin(n)
    \/ \E o \in LookupOutcomes : ResolveEnd(o)
    \/ \E d \in {1, IMAGE_CACHE_TTL_SECONDS} : Tick(d)

(***************************************************************************)
(* One pipeline run (main.py): fetch, card assembly article by article,    *)
(* replacement of the view, persistence, notification.  Runs come one      *)
(* after the other: each is inside `async with _run_lock`.                 *)
(***************************************************************************)
\* number of runs in one behaviour
MaxRuns == 2
\* number of articles fetched in one behaviour, over all its runs
MaxArticles == 2

\* the queues GET /events can create
Subscribers == {"q1", "q2"}

FetchNewsArticlesLenient(resp) ==
    [raised |-> FALSE, articles |-> IF resp.kind = "ok" THEN resp.articles ELSE <<>>]

\* main.fetch_news_articles: client.get raises on a network error,
\* raise_for_status on an error status; else the articles of the body
FetchNewsArticles(resp) ==
    IF resp.kind = "ok" THEN [raised |-> FALSE, articles |-> resp.articles]
    ELSE [raised |-> TRUE, articles |-> <<>>]

\* (x or ""), for a value that may be None
OrEmpty(x) == IF Truthy(x) THEN x ELSE <<>>

NoContent == [kind |-> "None", name |-> <<>>, catchy_title |-> <<>>, summary |-> <<>>]

\* main.extract_people_and_generate_content, from the reply of the
\* extraction service: it raises when the call raises, returns None on a
\* status other than 200, on a body that is no JSON and on an empty or
\* absent name, and else the trimmed name, title and summary
ExtractPeopleAndGenerateContent(reply) ==
    CASE reply.kind = "error"     -> [NoContent EXCEPT !.kind = "raise"]
      [] reply.kind = "status"    -> NoContent
      [] reply.kind = "malformed" -> NoContent
      [] OTHER ->
            IF Strip(OrEmpty(reply.name)) = <<>> THEN NoContent
            ELSE [kind |-> "content",
                  name |-> Strip(OrEmpty(reply.name)),
                  catchy_title |-> Strip(OrEmpty(reply.catchy_title)),
                  summary |-> Strip(OrEmpty(reply.summary))]

SplitNone(text, sep) == <<text>>

\* str.split(sep)
RECURSIVE Split(_, _)
Split(text, sep) ==
    IF \A i \in 1 .. Len(text) : text[i] # sep THEN <<text>>
    ELSE LET i == CHOOSE k \in 1 .. Len(text) :
                      text[k] = sep /\ \A j \in 1 .. k - 1 : text[j] # sep
         IN  <<SubSeq(text, 1, i - 1)>> \o Split(SubSeq(text, i + 1, Len(text)), sep)

CardNamesUnchecked(name) ==
    [i \in 1 .. Len(Split(name, ",")) |-> Strip(Split(name, ",")[i])]

\* the names of ai_content['name'] the loop makes a card for: trimmed,
\* not empty, accepted by the validator
CardNames(name) ==
    LET parts == Split(name, ",")
    IN  SelectSeq([i \in 1 .. Len(parts) |-> Strip(parts[i])],
                  LAMBDA n : n # <<>> /\ IsValidPersonName(PyStr(n)))

\* the body of the try block for one article: the cards it appends, or the
\* exception it raises (from the extraction call, or from NewsCard(...)
\* when the article has no publishedAt string)
ArticleCards(article, outcome) ==
    LET content == ExtractPeopleAndGenerateContent(article.reply)
        names == CardNames(content.name)
    IN  IF content.kind = "raise" THEN [raised |-> TRUE, cards |-> <<>>]
        ELSE IF content.kind = "None" THEN [raised |-> FALSE, cards |-> <<>>]
        ELSE IF names # <<>> /\ article.publishedAt = Null
             THEN [raised |-> TRUE, cards |-> <<>>]
        ELSE [raised |-> FALSE,
              cards |-> [i \in 1 .. Len(names) |->
                            Card(names[i], article.url, content.catchy_title,
                                 content.summary, article.publishedAt,
                                 FinalUrl(names[i], outcome))]]

ProcessArticleNoCatch(cards, article, outcome) ==
    [propagates |-> ArticleCards(article, outcome).raised,
     cards |-> cards \o ArticleCards(article, outcome).cards]

\* one iteration of the loop of process_news_pipeline, with its
\* `except Exception: continue`
ProcessArticle(cards, article, outcome) ==
    [propagates |-> FALSE,
     cards |-> IF ArticleCards(article, outcome).raised THEN cards
               ELSE cards \o ArticleCards(article, outcome).cards]

NewsCardsDbInPlace(view, cards, done) == cards

\* news_cards_db after an iteration of the loop: it is assigned once, after
\* the loop
NewsCardsDb(view, cards, done) == IF done THEN cards ELSE view

PruneAll(subs, failing) == IF failing = {} THEN subs ELSE {}

\* _notify_update, its second loop: the queues whose put raised are discarded
Prune(subs, failing) == subs \ failing

\* _notify_update(payload): msg is put on the queue of every subscriber;
\* `failing` are the queues whose put raises
NotifyUpdate(subs, queues, msg, failing) ==
    [subscribers |-> Prune(subs, failing),
     queue |-> [q \in Subscribers |->
                   IF q \in subs \ failing THEN Append(queues[q], msg) ELSE queues[q]]]

(***************************************************************************)
(* What the news API and the extraction service can answer.                *)
(***************************************************************************)
NameArmy == <<"a", "r", "m", "y">>
TimeZ == <<"2025-10-10T13:28:17", "Z">>

Reply(name, catchy_title, summary) ==
    [kind |-> "json", name |-> name, catchy_title |-> catchy_title, summary |-> summary]

NoReply(kind) == [kind |-> kind, name |-> Null, catchy_title |-> Null, summary |-> Null]

Article(url, publishedAt, reply) == [url |-> url, publishedAt |-> publishedAt, reply |-> reply]

NewsArticles ==
    { \* one person
      Article(LinkX, TimeZ, Reply(NameAB, <<"t">>, <<"s">>)),
      \* two persons, padded with blanks, no title extracted
      Article(LinkY, TimeZ, Reply(<<" ">> \o NameAB \o <<",", " ">> \o NameCase, Null, <<"s">>)),
      \* one person, an empty name and a deny-listed name
      Article(LinkY, TimeZ, Reply(NameAB \o <<",", " ", ",">> \o NameArmy, <<"t">>, <<"r">>)),
      \* only an empty name and a deny-listed name
      Article(LinkX, TimeZ, Reply(<<" ", ",">> \o NameArmy, <<"t">>, <<"s">>)),
      \* no name, a blank name
      Article(LinkX, TimeZ, Reply(Null, <<"t">>, <<"s">>)),
      Article(LinkX, TimeZ, Reply(<<" ">>, <<"t">>, <<"s">>)),
      \* the extraction call raised, answered 500, answered no JSON
      Article(LinkX, TimeZ, NoReply("error")),
      Article(LinkX, TimeZ, NoReply("status")),
      Article(LinkX, TimeZ, NoReply("malformed")),
      \* the article has no publishedAt
      Article(LinkX, Null, Reply(NameAB, <<"t">>, <<"s">>)) }

\* what the news API can answer: at most n of the articles `pool`, or an error
FetchResponses(pool, n) ==
    {[kind |-> "ok", articles |-> l] : l \in UNION {[1 .. k -> pool] : k \in 0 .. n}}
        \cup {[kind |-> k, articles |-> <<>>] : k \in {"network_error", "http_error"}}

\* the outcome of the image lookups for the names of an article
RunImageOutcomes == {"none"}

RunInit ==
    /\ run_pc = "idle"
    /\ fetched = <<>>
    /\ idx = 0
    /\ new_cards = <<>>
    /\ subscribers = {}
    /\ queue = [q \in Subscribers |-> <<>>]
    /\ dead = {}
    /\ fetch_status = "none"
    /\ broadcasts = 0
    /\ run_result = "none"
    /\ runs = 0
    /\ fetched_total = 0
    /\ failed_at = 0
    /\ conn = [q \in Subscribers |-> "closed"]

CloseCommits(committed, s) == Flush(s)

\* db.close() of a session that was not committed: what it added and
\* flushed is rolled back, the committed rows stay
Close(committed, s) == committed

\* run_pipeline_and_ingest after the pipeline: a session is opened, the
\* cards, if any, are ingested and committed, and the session is closed.
\* fail_at = k > 0: the iteration for card k raises (k = Len(cards) + 1: the
\* commit raises) with the cards before it added and flushed.  The value is
\* the rows of the database after the close.
PersistCards(P, A, PA, cards, fail_at) ==
    IF cards = <<>> THEN OpenSession(P, A, PA)
    ELSE IF fail_at = 0 THEN IngestNewscards(P, A, PA, cards)
    ELSE Close(OpenSession(P, A, PA),
               IngestLoop(OpenSession(P, A, PA), SubSeq(cards, 1, fail_at - 1)))

\* the end of a run whose assembly gave `cards`, with no suspension point:
\* process_news_pipeline replaces the view, run_pipeline_and_ingest
\* persists the cards if there are any, and the caller notifies; if
\* persistence raises, the session is closed uncommitted and the exception
\* leaves the run before the notification
Finish(cards, fail_at, failing) ==
    /\ IF cards = <<>> THEN fail_at = 0 ELSE fail_at <= Len(cards) + 1
    /\ failed_at' = fail_at
    /\ run_pc' = "idle"
    /\ new_cards' = cards
    /\ news_cards_db' = NewsCardsDb(news_cards_db, cards, TRUE)
    /\ LET s == PersistCards(people, articles, person_articles, cards, fail_at)
       IN  /\ people' = s.people
           /\ articles' = s.articles
           /\ person_articles' = s.person_articles
    /\ IF fail_at # 0
       THEN /\ run_result' = "persist_failed"
            /\ UNCHANGED <<subscribers, queue, dead, broadcasts>>
       ELSE /\ run_result' = "ok"
            /\ LET n == NotifyUpdate(subscribers, queue,
                                     [kind |-> "news_update", ts |-> clock], failing)
               IN  /\ subscribers' = n.subscribers
                   /\ queue' = n.queue
            /\ dead' = failing
            /\ broadcasts' = broadcasts + 1

\* a run starts and fetch_news_articles returns or raises
RunFetch(resp, fail_at, failing) ==
    /\ run_pc = "idle"
    /\ runs < MaxRuns
    /\ runs' = runs + 1
    /\ fetch_status' = resp.kind
    /\ LET f == FetchNewsArticles(resp)
       IN  /\ fetched_total' = fetched_total + Len(f.articles)
           /\ IF f.raised
              THEN /\ run_result' = "fetch_failed"
                   /\ UNCHANGED <<run_pc, fetched, idx, new_cards, news_cards_db, failed_at,
                                  people, articles, person_articles,
                                  subscribers, queue, dead, broadcasts>>
              ELSE /\ fetched' = f.articles
                   /\ IF f.articles = <<>>
                      THEN /\ idx' = 0
                           /\ Finish(<<>>, fail_at, failing)
                      ELSE /\ run_pc' = "assemble"
                           /\ idx' = 0
                           /\ new_cards' = <<>>
                           /\ run_result' = "running"
                           /\ UNCHANGED <<failed_at, news_cards_db, people, articles, person_articles,
                                          subscribers, queue, dead, broadcasts>>
    /\ UNCHANGED <<conn, gateVars, ingested, repeated, validatorVars, imageVars>>

\* the awaits of the loop for the next article are over; after the last
\* article the run goes on to its end
RunArticle(outcome, fail_at, failing) ==
    /\ run_pc = "assemble"
    /\ LET r == ProcessArticle(new_cards, fetched[idx + 1], outcome)
           done == idx + 1 = Len(fetched)
       IN  /\ idx' = idx + 1
           /\ IF r.propagates
              THEN /\ run_pc' = "idle"
                   /\ run_result' = "raised"
                   /\ UNCHANGED <<failed_at, new_cards, news_cards_db, people, articles, person_articles,
                                  subscribers, queue, dead, broadcasts>>
              ELSE IF done
              THEN Finish(r.cards, fail_at, failing)
              ELSE /\ new_cards' = r.cards
                   /\ news_cards_db' = NewsCardsDb(news_cards_db, r.cards, FALSE)
                   /\ UNCHANGED <<failed_at, run_pc, run_result, people, articles, person_articles,
                                  subscribers, queue, dead, broadcasts>>
    /\ UNCHANGED <<fetched, fetch_status, runs, fetched_total, conn,
                   gateVars, ingested, repeated, validatorVars, imageVars>>

\* CancelledError is thrown into the run at an await of the loop (the
\* periodic task was cancelled): `except Exception` does not catch it
RunCancelled ==
    /\ run_pc = "assemble"
    /\ run_pc' = "idle"
    /\ run_result' = "cancelled"
    /\ UNCHANGED <<fetched, idx, new_cards, subscribers, queue, dead, fetch_status,
                   broadcasts, runs, fetched_total, failed_at, conn,
                   gateVars, storeVars, validatorVars, imageVars>>

\* GET /events: events() makes a queue, registers it and returns the
\* StreamingResponse; the generator _sse_event_stream has not run yet
Subscribe(q) ==
    /\ conn[q] = "closed"
    /\ q \notin subscribers
    /\ subscribers' = subscribers \cup {q}
    /\ queue' = [queue EXCEPT ![q] = <<>>]
    /\ conn' = [conn EXCEPT ![q] = "accepted"]
    /\ UNCHANGED <<run_pc, fetched, idx, new_cards, dead, fetch_status, broadcasts,
                   run_result, runs, fetched_total, failed_at,
                   gateVars, storeVars, validatorVars, imageVars>>

\* the response starts to be sent: the first iteration of _sse_event_stream
\* enters its try block
StreamStart(q) ==
    /\ conn[q] = "accepted"
    /\ conn' = [conn EXCEPT ![q] = "streaming"]
    /\ UNCHANGED <<run_pc, fetched, idx, new_cards, subscribers, queue, dead, fetch_status,
                   broadcasts, run_result, runs, fetched_total, failed_at,
                   gateVars, storeVars, validatorVars, imageVars>>

\* _sse_event_stream: q.get() returns a message, which is sent
GetEvent(q) ==
    /\ conn[q] = "streaming"
    /\ queue[q] # <<>>
    /\ queue' = [queue EXCEPT ![q] = Tail(@)]
    /\ UNCHANGED <<run_pc, fetched, idx, new_cards, subscribers, dead, fetch_status,
                   broadcasts, run_result, runs, fetched_total, failed_at, conn,
                   gateVars, storeVars, validatorVars, imageVars>>

\* the client goes away.  While the generator runs, it will see
\* request.is_disconnected() or be closed; a response whose body was never
\* iterated leaves a generator that was never started, and closing such a
\* generator runs none of its code
Disconnect(q) ==
    /\ conn[q] \in {"accepted", "streaming"}
    /\ conn' = [conn EXCEPT ![q] = IF conn[q] = "streaming" THEN "gone" ELSE "abandoned"]
    /\ UNCHANGED <<run_pc, fetched, idx, new_cards, subscribers, queue, dead, fetch_status,
                   broadcasts, run_result, runs, fetched_total, failed_at,
                   gateVars, storeVars, validatorVars, imageVars>>

\* _sse_event_stream ends (the client disconnected): finally discard(q)
Unsubscribe(q) ==
    /\ conn[q] = "gone"
    /\ subscribers' = subscribers \ {q}
    /\ queue' = [queue EXCEPT ![q] = <<>>]
    /\ conn' = [conn EXCEPT ![q] = "closed"]
    /\ UNCHANGED <<run_pc, fetched, idx, new_cards, dead, fetch_status, broadcasts,
                   run_result, runs, fetched_total, failed_at,
                   gateVars, storeVars, validatorVars, imageVars>>

\* the steps of the runs, the news API answering with at most `most`
\* articles of `pool`
RunSteps(pool, most) ==
    \/ \E resp \in FetchResponses(pool, IF MaxArticles - fetched_total < most
                                           THEN MaxArticles - fetched_total ELSE most) :
          \E fail_at \in 0 .. MaxCards + 1 : \E failing \in SUBSET subscribers :
             RunFetch(resp, fail_at, failing)
    \/ \E outcome \in RunImageOutcomes :
          \E fail_at \in 0 .. MaxCards + 1 : \E failing \in SUBSET subscribers :
             RunArticle(outcome, fail_at, failing)
    \/ RunCancelled

RunNext == RunSteps(NewsArticles, MaxArticles)

\* for the fan-out: an article that gives a card and one whose extraction raises
FanoutArticles ==
    { Article(LinkX, TimeZ, Reply(NameAB, <<"t">>, <<"s">>)),
      Article(LinkX, TimeZ, NoReply("error")) }

FanoutNext ==
    \/ RunSteps(FanoutArticles, 1)
    \/ \E q \in Subscribers : Subscribe(q)
    \/ \E q \in Subscribers : StreamStart(q)
    \/ \E q \in Subscribers : GetEvent(q)
    \/ \E q \in Subscribers : Disconnect(q)
    \/ \E q \in Subscribers : Unsubscribe(q)

(***************************************************************************)
(* The tasks.                                                              *)
(***************************************************************************)
GateInit ==
    /\ locked = FALSE
    /\ waiters = <<>>
    /\ pc = [t \in Tasks |->
                CASE t = "startup"  -> "start"
                  [] t = "periodic" -> "absent"
                  [] OTHER          -> "idle"]
    /\ cancelReq = FALSE
    /\ result = [t \in Tasks |-> "none"]

Init ==
    /\ GateInit
    /\ StoreInit
    /\ ValidatorInit
    /\ ImageInit
    /\ RunInit

\* on_startup: the initial run, under the lock
StartupBegin ==
    /\ UNCHANGED <<storeVars, otherVars>>
    /\ pc["startup"] = "start"
    /\ Acquire("startup")
    /\ UNCHANGED <<cancelReq, result>>

\* periodic_refresh: the sleep is over, the tick enters `async with _run_lock`
PeriodicTick ==
    /\ UNCHANGED <<storeVars, otherVars>>
    /\ pc["periodic"] = "sleep"
    /\ ~cancelReq
    /\ Acquire("periodic")
    /\ UNCHANGED <<cancelReq, result>>

\* refresh_news: 409 busy if locked() else `async with _run_lock`
ManualTrigger(m) ==
    /\ UNCHANGED <<storeVars, otherVars>>
    /\ Serving
    /\ pc[m] = "idle"
    /\ IF locked
       THEN /\ result' = [result EXCEPT ![m] = "busy"]
            /\ UNCHANGED <<locked, waiters, pc>>
       ELSE /\ Acquire(m)
            /\ UNCHANGED result
    /\ UNCHANGED cancelReq

\* Lock.acquire resumes after `await fut`: the future was given its result
WaiterResume(t) ==
    /\ UNCHANGED <<storeVars, otherVars>>
    /\ pc[t] = "waiting"
    /\ ~(t = "periodic" /\ cancelReq)
    /\ waiters[WaiterOf(t)].st = "done"
    /\ waiters' = RemoveAt(waiters, WaiterOf(t))
    /\ locked' = TRUE
    /\ pc' = [pc EXCEPT ![t] = "fetch"]
    /\ UNCHANGED <<cancelReq, result>>

\* fetch_news_articles returned the articles
FetchOk(t) ==
    /\ UNCHANGED <<storeVars, otherVars>>
    /\ pc[t] = "fetch"
    /\ ~(t = "periodic" /\ cancelReq)
    /\ pc' = [pc EXCEPT ![t] = "assemble"]
    /\ UNCHANGED <<locked, waiters, cancelReq, result>>

\* fetch_news_articles raised (network error, raise_for_status)
FetchFail(t) ==
    /\ UNCHANGED <<storeVars, otherVars>>
    /\ pc[t] = "fetch"
    /\ ~(t = "periodic" /\ cancelReq)
    /\ ExitRun(t, "fetch_failed")
    /\ UNCHANGED cancelReq

\* the last await of card assembly returned: the view is replaced and the
\* cards are persisted, with no suspension point in between.  If that
\* raises, the block is left; else run_pipeline_and_ingest returns and the
\* task is at `await _notify_update(...)`, still inside the block
RunFinish(t) ==
    /\ UNCHANGED <<storeVars, otherVars>>
    /\ pc[t] = "assemble"
    /\ ~(t = "periodic" /\ cancelReq)
    /\ \/ ExitRun(t, "persist_failed")
       \/ /\ pc' = [pc EXCEPT ![t] = "notify"]
          /\ locked' = GateAtNotify("ok")[1]
          /\ waiters' = GateAtNotify("ok")[2]
          /\ UNCHANGED result
    /\ UNCHANGED cancelReq

\* _notify_update returned or raised, and the `async with` block is left.
\* Its awaits are taken as points where other tasks can run; put on the
\* unbounded queues does not in fact suspend, so the event loop allows
\* fewer interleavings than these steps do.
Notify(t) ==
    /\ UNCHANGED <<storeVars, otherVars>>
    /\ pc[t] = "notify"
    /\ ~(t = "periodic" /\ cancelReq)
    /\ \E how \in {"ok", "notify_failed"} : ExitRun(t, how)
    /\ UNCHANGED cancelReq

\* _shutdown: _update_task.cancel(), then await it
Shutdown ==
    /\ UNCHANGED <<storeVars, otherVars>>
    /\ pc["startup"] = "done"
    /\ pc["shutdown"] = "idle"
    /\ pc' = [pc EXCEPT !["shutdown"] = "awaiting"]
    /\ cancelReq' = TRUE
    /\ waiters' = IF pc["periodic"] = "waiting" /\ waiters[WaiterOf("periodic")].st = "pending"
                  THEN [waiters EXCEPT ![WaiterOf("periodic")].st = "cancelled"]
                  ELSE waiters
    /\ UNCHANGED <<locked, result>>

\* CancelledError is thrown into periodic_refresh at its suspension point
CancelDelivered ==
    /\ UNCHANGED <<storeVars, otherVars>>
    /\ cancelReq
    /\ pc["periodic"] \in {"sleep", "waiting"} \cup RunStages
    /\ cancelReq' = FALSE
    /\ CASE pc["periodic"] = "sleep" ->
              /\ pc' = [pc EXCEPT !["periodic"] = "ended"]
              /\ result' = [result EXCEPT !["periodic"] = "cancelled"]
              /\ UNCHANGED <<locked, waiters>>
         [] pc["periodic"] = "waiting" ->
              \* acquire: finally remove(fut); except CancelledError:
              \* if not self._locked: self._wake_up_first()
              /\ waiters' = IF locked THEN RemoveAt(waiters, WaiterOf("periodic"))
                            ELSE WakeUpFirst(RemoveAt(waiters, WaiterOf("periodic")))
              /\ pc' = [pc EXCEPT !["periodic"] = "ended"]
              /\ result' = [result EXCEPT !["periodic"] = "cancelled"]
              /\ UNCHANGED locked
         [] OTHER -> ExitRun("periodic", "cancelled")

\* _shutdown's `await _update_task` returns
ShutdownDone ==
    /\ UNCHANGED <<storeVars, otherVars>>
    /\ pc["shutdown"] = "awaiting"
    /\ pc["periodic"] = "ended"
    /\ pc' = [pc EXCEPT !["shutdown"] = "done"]
    /\ UNCHANGED <<locked, waiters, cancelReq, result>>

Next ==
    \/ StartupBegin
    \/ PeriodicTick
    \/ \E m \in Manual : ManualTrigger(m)
    \/ \E t \in Tasks : WaiterResume(t)
    \/ \E t \in Tasks : FetchOk(t)
    \/ \E t \in Tasks : FetchFail(t)
    \/ \E t \in Tasks : RunFinish(t)
    \/ \E t \in Tasks : Notify(t)
    \/ Shutdown
    \/ CancelDelivered
    \/ ShutdownDone

Spec == Init /\ [][Next]_vars

\* the store under any sequence of pipeline runs
SpecStore == Init /\ [][StoreNext]_vars

\* the scheduler runs every task that is ready, and every network call
\* returns or times out (httpx timeouts), so a run in flight finishes
Progress ==
    /\ \A t \in Tasks : WF_vars(WaiterResume(t))
    /\ \A t \in Tasks : WF_vars(FetchOk(t) \/ FetchFail(t))
    /\ \A t \in Tasks : WF_vars(RunFinish(t))
    /\ \A t \in Tasks : WF_vars(Notify(t))
    /\ WF_vars(CancelDelivered)
    /\ WF_vars(ShutdownDone)

LiveSpec == Init /\ [][Next]_vars /\ Progress

\* the validator called once with any of the values
ValidatorStart ==
    /\ GateInit
    /\ StoreInit
    /\ arg \in ValidatorArgs
    /\ called = FALSE
    /\ verdict = FALSE
    /\ ImageInit
    /\ RunInit

SpecValidator == ValidatorStart /\ [][CallIsValidPersonName]_vars

\* one image resolution, of any of the names with any answers of the network
LookupStart ==
    /\ GateInit
    /\ StoreInit
    /\ ValidatorInit
    /\ RunInit
    /\ clock = 0
    /\ IMAGE_CACHE \in {{}, SetCached({}, NameAB, FinalUrl(NameAB, "hosted"), 0)}
    /\ image_pc = "idle"
    /\ image_name \in ImageNames
    /\ image_result = Null
    /\ calls = 0
    /\ lookups = 0
    /\ lookup \in Lookups
    /\ queried = <<>>

SpecLookup == LookupStart /\ [][GeneratePersonImage]_vars

\* the image resolutions of the pipeline runs, one after the other
SpecImage == Init /\ [][ImageNext]_vars

\* the pipeline runs, one after the other
SpecRun == Init /\ [][RunNext]_vars

\* the pipeline runs and the event subscribers
SpecFanout == Init /\ [][FanoutNext]_vars

\* a generator that runs comes to its next await: the disconnect is seen at
\* the latest when wait_for(q.get(), timeout=30) times out and the loop
\* tests request.is_disconnected() again, and a started stream is started
\* without waiting for anything
StreamProgress ==
    \A q \in Subscribers : WF_vars(Unsubscribe(q)) /\ WF_vars(StreamStart(q))

LiveSpecFanout == Init /\ [][FanoutNext]_vars /\ StreamProgress

(***************************************************************************)
(* Run coordinator: claims.                                                *)
(***************************************************************************)

\* C1: at most one pipeline run is in flight (between admission and gate
\* release) at any moment, and a manual trigger issued while a run is in
\* flight answers busy and starts no run.
C1_SingleFlight ==
    /\ [](Cardinality(InFlight) <= 1)
    /\ [][\A m \in Manual :
            (pc[m] = "idle" /\ InFlight # {}
                /\ <<pc[m], result[m]>>' # <<pc[m], result[m]>>)
            => (result'[m] = "busy" /\ pc'[m] = "idle")]_vars

\* a manual trigger was answered busy while another task's run is in flight
C1_Witness ==
    \E m \in Manual : result[m] = "busy" /\ pc[m] = "idle" /\ InFlight # {}

\* C2: a manual trigger never queues on the run gate: it is answered busy or
\* admitted at once, never left waiting for another run.
C2_ManualNeverWaits == \A m \in Manual : pc[m] # "waiting"

\* C3: a scheduled tick that finds the gate held skips the tick: it never
\* waits in the gate's queue.
C3_TickNeverQueues ==
    [][(pc["periodic"] = "sleep" /\ locked) => pc'["periodic"] # "waiting"]_vars

\* C4: the gate is released on every exit path of a run (success, failure of
\* fetch, persistence or notification, cancellation at a suspension point):
\* a held gate always has a run in flight behind it, the step that ends a run
\* leaves the gate free, and a held gate is always released again.
C4_GateReleased ==
    /\ [](locked => InFlight # {})
    /\ [][\A t \in Tasks : (pc[t] \in RunStages /\ pc'[t] \notin RunStages) => ~locked']_vars
    /\ (locked ~> ~locked)

\* the periodic run was cancelled at a suspension point inside the gate, and
\* the gate is free
C4_Witness == result["periodic"] = "cancelled_in_run" /\ ~locked /\ pc["shutdown"] = "done"

\* C21: the gate is held across the whole run, persistence and notification
\* included: while a run is between its persistence and its notification the
\* gate is held and no other run is in flight, no run is admitted then, and
\* none is admitted in the step that makes the notification.
C21_GateHeldAcrossNotify ==
    /\ [](\A t \in Tasks : pc[t] = "notify" => (locked /\ InFlight = {t}))
    /\ [][\A t \in Tasks : pc[t] = "notify" =>
            \A u \in Tasks \ {t} : pc'[u] \notin RunStages]_vars

\* a run is between its persistence and its notification while another task
\* waits at the gate and a manual trigger was answered busy
C21_Witness ==
    \E t \in Tasks :
        /\ pc[t] = "notify"
        /\ \E u \in Tasks \ {t} : pc[u] = "waiting"
        /\ \E m \in Manual : result[m] = "busy"

(***************************************************************************)
(* Store: claims.                                                          *)
(***************************************************************************)

\* the cards of the last run that carry link `link`, in card order
CardsFor(link) == SelectSeq(news_cards_db, LAMBDA c : c.link = link)

\* the last non-empty value of a sequence, `default` if there is none
RECURSIVE LastTruthy(_, _)
LastTruthy(values, default) ==
    IF values = <<>> THEN default
    ELSE IF Truthy(values[Len(values)]) THEN values[Len(values)]
    ELSE LastTruthy(SubSeq(values, 1, Len(values) - 1), default)

\* the first non-empty value of a sequence, `default` if there is none
RECURSIVE FirstTruthy(_, _)
FirstTruthy(values, default) ==
    IF values = <<>> THEN default
    ELSE IF Truthy(Head(values)) THEN Head(values)
    ELSE FirstTruthy(Tail(values), default)

\* C5: the store never holds two Person rows whose canonical names (trimmed,
\* whitespace-collapsed, lower-cased) are equal: name variants that differ
\* only in letter case or whitespace resolve to one Person.
C5_OnePersonPerCanonicalName ==
    \A p, q \in people : CanonicalName(p.name) = CanonicalName(q.name) => p = q

\* C6: after any sequence of runs the store holds at most one Article row
\* per link, also when a link occurs on several cards of a run and again in
\* a later run.
C6_OneArticlePerLink == \A a, b \in articles : a.link = b.link => a = b

\* the last run carried one link on two cards, as the run before it did
C6_Witness ==
    /\ repeated
    /\ \E i, j \in 1 .. Len(news_cards_db) :
          i # j /\ news_cards_db[i].link = news_cards_db[j].link
    /\ \E a \in articles : a.link = news_cards_db[1].link

\* C7: the store holds at most one PersonArticle row per (person, article)
\* pair, also when one run links the same pair twice before it commits.
C7_OneLinkPerPair ==
    \A x, y \in person_articles :
        (x.person_id = y.person_id /\ x.article_id = y.article_id) => x = y

\* C8: re-resolving an Article by its link never empties a populated field;
\* published_at, source_name and image_url, once populated, never change; a
\* publish time supplied for an Article that had none is stored on the
\* existing row, and no second row is created for the link.
C8_MonotonicBackfill ==
    [][\A a \in articles : \E b \in articles' :
          /\ b.id = a.id /\ b.link = a.link
          /\ \A f \in {"title", "summary", "published_at", "source_name", "image_url"} :
                Truthy(a[f]) => Truthy(b[f])
          /\ \A f \in {"published_at", "source_name", "image_url"} :
                Truthy(a[f]) => b[f] = a[f]
          /\ ~Truthy(a.published_at) =>
                b.published_at =
                    FirstTruthy([i \in 1 .. Len(CardsFor(a.link)') |->
                                    ParsePublished(CardsFor(a.link)'[i])], a.published_at)
          /\ Cardinality({x \in articles' : x.link = a.link}) = 1]_vars

\* an Article holds a publish time and an image, and a later run supplied
\* another publish time and another image for its link
C8_Witness ==
    /\ ingested > Len(news_cards_db)
    /\ \E a \in articles : \E i \in 1 .. Len(news_cards_db) :
          /\ news_cards_db[i].link = a.link
          /\ Truthy(ParsePublished(news_cards_db[i]))
          /\ Truthy(a.published_at)
          /\ a.published_at # ParsePublished(news_cards_db[i])
          /\ a.image_url # news_cards_db[i].image_url

\* C9: title and summary of an Article follow last-write-wins: after a run
\* the stored title (summary) is the last non-empty title (summary) supplied
\* for the link, and the stored value is kept where none was supplied.
C9_LastWriteWins ==
    [][\A b \in articles' :
          LET sup == CardsFor(b.link)'
              old == {a \in articles : a.link = b.link}
              was == CHOOSE a \in old : TRUE
          IN  /\ b.title = LastTruthy([i \in 1 .. Len(sup) |-> CardTitle(sup[i])],
                                      IF old = {} THEN <<>> ELSE was.title)
              /\ b.summary = LastTruthy([i \in 1 .. Len(sup) |-> CardSummary(sup[i])],
                                        IF old = {} THEN <<>> ELSE was.summary)]_vars

\* the last run supplied two different titles for a link, then an empty
\* summary: the Article holds the second title and kept its summary
C9_Witness ==
    \E a \in articles :
        LET sup == CardsFor(a.link)
        IN  /\ Len(sup) >= 2
            /\ CardTitle(sup[1]) # CardTitle(sup[Len(sup)])
            /\ a.title = CardTitle(sup[Len(sup)])
            /\ ~Truthy(CardSummary(sup[Len(sup)]))
            /\ Truthy(a.summary)

\* C10: a run with the same cards as the run before it leaves the Person,
\* Article and PersonArticle rows exactly as they were.
C10_RerunIdempotent ==
    [][news_cards_db' = news_cards_db =>
          <<people, articles, person_articles>>' = <<people, articles, person_articles>>]_vars

\* a run of two different cards was run a second time
C10_Witness ==
    /\ repeated
    /\ Len(news_cards_db) >= 2
    /\ news_cards_db[1] # news_cards_db[2]
    /\ person_articles # {}

(***************************************************************************)
(* Name validator: claims.                                                 *)
(***************************************************************************)

\* the letters c and d are equal up to letter case
SameLetter(c, d) == c = d \/ UpperChar(c) = UpperChar(d)

\* a deny-listed term occurs in text, letter case ignored
HasDenyListedTerm(text) ==
    \E bad \in BANNED_WORDS : \E i \in 1 .. Len(text) - Len(bad) + 1 :
        \A j \in 1 .. Len(bad) : SameLetter(text[i + j - 1], bad[j])

\* C12: is_valid_person_name returns a boolean for every argument: false for
\* the empty string, null and every non-string, false for every name in
\* which a deny-listed term occurs as a substring whatever its letter case,
\* and true for every other non-empty string.
C12_FailsClosed ==
    called =>
        /\ verdict \in BOOLEAN
        /\ (arg.t # "str" \/ arg.v = <<>>) => verdict = FALSE
        /\ (arg.t = "str" /\ HasDenyListedTerm(arg.v)) => verdict = FALSE
        /\ (arg.t = "str" /\ arg.v # <<>> /\ ~HasDenyListedTerm(arg.v)) => verdict = TRUE

\* a name was rejected that holds a deny-listed term in capital letters
\* inside a longer string
C12_Witness ==
    /\ called /\ ~verdict /\ arg.t = "str"
    /\ Lower(arg.v) \notin BANNED_WORDS
    /\ Lower(arg.v) # arg.v
    /\ HasDenyListedTerm(arg.v)

\* C13: with the shipped deny-list the validator returns false for "Hamas",
\* for "Taliban Spokesperson" and for the empty string, and true for
\* "Malala Yousafzai".
C13_ShippedDenyList ==
    called =>
        /\ arg \in {PyStr(Hamas), PyStr(TalibanSpokesperson), PyStr(<<>>)} => verdict = FALSE
        /\ arg = PyStr(MalalaYousafzai) => verdict = TRUE

(***************************************************************************)
(* Image cache: claims.                                                    *)
(***************************************************************************)

\* the entries of the cache for person_name that have not expired
FreshEntries(person_name) ==
    {e \in IMAGE_CACHE : e.key = NameKey(person_name) /\ clock <= e.expires_at}

\* this step is a call of generate_person_image with a valid name
Resolves(person_name) ==
    /\ image_pc = "idle"
    /\ calls' = calls + 1
    /\ image_name' = person_name
    /\ IsValidPersonName(PyStr(person_name))

\* C14: whatever URL a resolution ends with (source image, hosted image,
\* placeholder) is cached under the name for the TTL; a resolution of a
\* name whose entry has not expired returns the cached URL and makes no
\* external lookup; a resolution after the entry expired makes the lookups
\* again.
C14_CachedForTtl ==
    /\ [][image_pc = "lookup" /\ image_pc' = "idle" =>
            [key |-> NameKey(image_name), expires_at |-> clock + IMAGE_CACHE_TTL_SECONDS,
             url |-> image_result'] \in IMAGE_CACHE']_vars
    /\ [][\A n \in ImageNames : \A e \in FreshEntries(n) :
            Resolves(n) => /\ image_result' = e.url
                           /\ image_pc' = "idle"
                           /\ lookups' = lookups]_vars
    /\ [][\A n \in ImageNames :
            (Resolves(n) /\ FreshEntries(n) = {}) =>
                (lookups' = lookups + 1 /\ image_pc' = "lookup")]_vars

\* a placeholder was cached, returned again from the cache within the TTL,
\* and looked up again after it expired
C14_Witness ==
    /\ lookups = 2 /\ calls = 3 /\ image_pc = "idle"
    /\ clock > IMAGE_CACHE_TTL_SECONDS
    /\ image_name = NameCase
    /\ \E e \in FreshEntries(NameAB) : e.url = image_result

(***************************************************************************)
(* Pipeline run: claims.                                                   *)
(***************************************************************************)

\* the positions of the commas of text, and its pieces between them
Commas(text) == {i \in 1 .. Len(text) : text[i] = ","}

NthComma(text, n) ==
    CHOOSE i \in Commas(text) : Cardinality({c \in Commas(text) : c < i}) = n - 1

NamePieces(text) ==
    LET k == Cardinality(Commas(text))
        cut(j) == IF j = 0 THEN 0 ELSE IF j = k + 1 THEN Len(text) + 1 ELSE NthComma(text, j)
    IN  [j \in 1 .. k + 1 |-> Strip(SubSeq(text, cut(j - 1) + 1, cut(j) - 1))]

\* a trimmed name the validator is to accept
IsPersonName(n) == n # <<>> /\ ~HasDenyListedTerm(n)

\* the extraction of the article answered with a name
HasName(a) == a.reply.kind = "json" /\ Truthy(a.reply.name) /\ Strip(a.reply.name) # <<>>

\* the extraction of the article gave only distinct valid names
DistinctValidNames(a) ==
    /\ HasName(a)
    /\ a.publishedAt # Null
    /\ LET names == NamePieces(a.reply.name)
       IN  /\ \A i \in 1 .. Len(names) : IsPersonName(names[i])
           /\ \A i, j \in 1 .. Len(names) : names[i] = names[j] => i = j

\* the extraction of the article gave no name, or no name that is valid
Nameless(a) ==
    /\ a.reply.kind = "json"
    /\ HasName(a) =>
          \A i \in 1 .. Len(NamePieces(a.reply.name)) :
              ~IsPersonName(NamePieces(a.reply.name)[i])

\* the processing of the article fails: the extraction call raised, was
\* answered with an error status or with no JSON, or the article lacks a field
ExtractionFails(a) ==
    a.reply.kind \in {"error", "status", "malformed"} \/ a.publishedAt = Null

\* the cards of the articles whose processing does not fail
RECURSIVE CardsOfOthers(_)
CardsOfOthers(arts) ==
    IF arts = <<>> THEN <<>>
    ELSE (IF ExtractionFails(Head(arts)) THEN <<>>
          ELSE ArticleCards(Head(arts), "none").cards) \o CardsOfOthers(Tail(arts))

\* this step is the loop of the run getting done with the next article
NextArticleDone == run_pc = "assemble" /\ idx' = idx + 1

\* this step ends a run
RunEnds == run_pc' = "idle" /\ (run_pc = "assemble" \/ runs' = runs + 1)

\* C11: an article with k distinct valid comma-separated names gives k
\* cards, and persisted into an empty store exactly k Person rows, one
\* Article row with the article's link and k PersonArticle rows, all of that
\* Article, one per person; the cards share the link and the title.
C11_OneArticleManyPeople ==
    (runs = 1 /\ run_result = "ok" /\ Len(fetched) = 1 /\ DistinctValidNames(fetched[1])) =>
        LET a == fetched[1]
            names == NamePieces(a.reply.name)
            k == Len(names)
        IN  /\ Len(news_cards_db) = k
            /\ \A i \in 1 .. k :
                  /\ news_cards_db[i].name = names[i]
                  /\ news_cards_db[i].link = a.url
                  /\ news_cards_db[i].catchy_title = news_cards_db[1].catchy_title
            /\ Cardinality(people) = k
            /\ {p.name : p \in people} = {names[i] : i \in 1 .. k}
            /\ Cardinality(articles) = 1
            /\ \A r \in articles : r.link = a.url /\ r.title = CardTitle(news_cards_db[k])
            /\ Cardinality(person_articles) = k
            /\ \A pa \in person_articles : \E r \in articles : pa.article_id = r.id
            /\ {pa.person_id : pa \in person_articles} = {p.id : p \in people}

\* the first run fetched one article about two people and persisted it
C11_Witness ==
    /\ runs = 1 /\ run_result = "ok" /\ Len(fetched) = 1
    /\ DistinctValidNames(fetched[1])
    /\ Len(NamePieces(fetched[1].reply.name)) = 2
    /\ Cardinality(person_articles) = 2

\* C15: when the news fetch fails (network error or error status) the run
\* ends there: the Person, Article and PersonArticle rows and the view are
\* as they were before the run.
C15_FetchFailureAborts ==
    [][(runs' = runs + 1 /\ fetch_status' \in {"network_error", "http_error"}) =>
          /\ run_pc' = "idle"
          /\ <<people, articles, person_articles, news_cards_db>>'
                = <<people, articles, person_articles, news_cards_db>>]_vars

\* a fetch failed after a run that persisted cards
C15_Witness ==
    /\ fetch_status = "http_error" /\ run_result = "fetch_failed" /\ runs = 2
    /\ news_cards_db # <<>> /\ people # {} /\ articles # {}

\* C16: the failure of one article never ends the run: the loop goes on to
\* the next article with the cards it had, and after the last article the
\* run completes with the cards of all the other articles.
C16_ItemFailureContinues ==
    /\ [][(NextArticleDone /\ ExtractionFails(fetched[idx + 1])) =>
            IF idx + 1 < Len(fetched)
            THEN run_pc' = "assemble" /\ new_cards' = new_cards
            ELSE /\ run_pc' = "idle"
                 /\ run_result' \in {"ok", "persist_failed"}
                 /\ news_cards_db' = new_cards]_vars
    /\ [][(RunEnds /\ run_pc = "assemble" /\ run_result' # "cancelled") =>
            news_cards_db' = CardsOfOthers(fetched)]_vars

\* a run completed with the card of its second article after the
\* extraction of its first article raised
C16_Witness ==
    /\ run_result = "ok" /\ Len(fetched) = 2
    /\ fetched[1].reply.kind = "error"
    /\ ~ExtractionFails(fetched[2])
    /\ news_cards_db # <<>> /\ people # {}

\* C17: an article whose extraction has no name, or only names that are
\* empty or rejected, adds no card, is no error (the loop goes on, the run
\* completes), and no Person, Article or PersonArticle row comes from it.
C17_NamelessArticleSkipped ==
    /\ [][(NextArticleDone /\ Nameless(fetched[idx + 1])) =>
            /\ new_cards' = new_cards
            /\ run_result' \in {"running", "ok", "persist_failed"}
            /\ idx + 1 < Len(fetched) => run_pc' = "assemble"]_vars
    /\ [][(RunEnds /\ run_result' = "ok") =>
            /\ \A r \in articles' :
                  (\A x \in articles : x.id # r.id) =>
                      \E j \in 1 .. Len(fetched') :
                          fetched'[j].url = r.link /\ ~Nameless(fetched'[j])
            /\ (\A j \in 1 .. Len(fetched') : Nameless(fetched'[j])) =>
                  /\ news_cards_db' = <<>>
                  /\ <<people, articles, person_articles>>'
                        = <<people, articles, person_articles>>]_vars

\* a run of an article without a name and an article with only an empty and
\* a deny-listed name completed and left the store empty
C17_Witness ==
    /\ run_result = "ok" /\ Len(fetched) = 2
    /\ ~HasName(fetched[1])
    /\ HasName(fetched[2]) /\ Nameless(fetched[2])
    /\ people = {} /\ articles = {} /\ person_articles = {} /\ news_cards_db = <<>>

\* C18: the view changes only in the step that ends an assembly, and then to
\* the complete card list of that assembly: while cards are being assembled
\* a reader sees the complete list of the assembly before.
C18_ViewSwappedWhole ==
    [][news_cards_db' # news_cards_db =>
          /\ RunEnds
          /\ idx' = Len(fetched')
          /\ news_cards_db' = new_cards'
          /\ news_cards_db' = CardsOfOthers(fetched')]_vars

\* an assembly is under way and has a card, and the view is still the
\* complete list of the assembly before it
C18_Witness ==
    /\ run_pc = "assemble" /\ 0 < idx /\ idx < Len(fetched)
    /\ new_cards # <<>>
    /\ news_cards_db # new_cards

\* C20: the view is replaced only after the run's records are persisted: in
\* no state does the view show a card whose Person, Article and
\* PersonArticle rows the store lacks.
C20_ViewOnlyAfterPersist ==
    \A i \in 1 .. Len(news_cards_db) :
        \E p \in people : \E r \in articles : \E pa \in person_articles :
            /\ p.name = news_cards_db[i].name
            /\ r.link = news_cards_db[i].link
            /\ pa.person_id = p.id /\ pa.article_id = r.id

(***************************************************************************)
(* Notification fan-out: claims.                                           *)
(***************************************************************************)

\* C19: a run that completes broadcasts exactly one event and no other step
\* broadcasts; the event is appended to the queue of every subscriber
\* registered at that moment whose enqueue did not fail, and those stay
\* registered; a subscriber whose enqueue failed is removed.
C19_OneBroadcastPerRun ==
    /\ [][broadcasts' = broadcasts + (IF RunEnds /\ run_result' = "ok" THEN 1 ELSE 0)]_vars
    /\ [][broadcasts' # broadcasts =>
            /\ dead' \subseteq subscribers
            /\ subscribers' = subscribers \ dead'
            /\ \A q \in subscribers \ dead' :
                  queue'[q] = Append(queue[q], [kind |-> "news_update", ts |-> clock])
            /\ \A q \in dead' : queue'[q] = queue[q]]_vars

\* a broadcast reached one subscriber, which stayed, and failed for the
\* other, which was removed
C19_Witness ==
    /\ broadcasts = 2 /\ run_result = "ok"
    /\ \E q \in subscribers : Len(queue[q]) = 2
    /\ \E q \in dead : q \notin subscribers

(***************************************************************************)
(* Persons: claims.                                                        *)
(***************************************************************************)

\* C25: a run deletes no row and changes a Person only to fill a missing
\* image: every Person, Article and PersonArticle row is still there after
\* the run, a Person keeps its name, and a Person's image, once populated,
\* is not overwritten by a later resolve.
C25_NoRowDeleted ==
    [][/\ \A p \in people : \E q \in people' :
             /\ q.id = p.id /\ q.name = p.name
             /\ Truthy(p.image_url) => q.image_url = p.image_url
             /\ q # p => ~Truthy(p.image_url)
       /\ \A a \in articles : \E b \in articles' : b.id = a.id /\ b.link = a.link
       /\ person_articles \subseteq person_articles']_vars

\* a Person has an image, and the last of several runs supplied another
\* image for the same name
C25_Witness ==
    /\ ingested > Len(news_cards_db)
    /\ \E p \in people : \E i \in 1 .. Len(news_cards_db) :
          /\ news_cards_db[i].name = p.name
          /\ Truthy(p.image_url)
          /\ news_cards_db[i].image_url # p.image_url

\* the first letter of every blank-separated token of s is a capital, and
\* s has no two blanks in a row
TokensCapitalized(s) ==
    /\ CollapseSpaces(s) = s
    /\ \A i \in 1 .. Len(s) :
          (s[i] # " " /\ (i = 1 \/ s[i - 1] = " ")) => UpperChar(s[i]) = s[i]

\* C26: the display name stored for a new Person is the input with every
\* whitespace-separated token capitalized and whitespace collapsed.
C26_DisplayNameCapitalized == \A p \in people : TokensCapitalized(p.name)

\* C27: every Person row has a non-empty name the validator accepts, and so
\* has every card assembled or shown: a deny-listed or empty candidate name
\* reaches neither card assembly nor the store.
C27_OnlyValidNames ==
    /\ \A p \in people : IsPersonName(p.name)
    /\ \A i \in 1 .. Len(new_cards) : IsPersonName(new_cards[i].name)
    /\ \A i \in 1 .. Len(news_cards_db) : IsPersonName(news_cards_db[i].name)

\* a run persisted the one valid name of an article that also had an empty
\* and a deny-listed name
C27_Witness ==
    /\ run_result = "ok" /\ people # {}
    /\ \E j \in 1 .. Len(fetched) :
          /\ HasName(fetched[j])
          /\ \E i \in 1 .. Len(NamePieces(fetched[j].reply.name)) :
                HasDenyListedTerm(NamePieces(fetched[j].reply.name)[i])
          /\ \E i \in 1 .. Len(NamePieces(fetched[j].reply.name)) :
                NamePieces(fetched[j].reply.name)[i] = <<>>
          /\ \E i \in 1 .. Len(NamePieces(fetched[j].reply.name)) :
                \E p \in people : p.name = NamePieces(fetched[j].reply.name)[i]

(***************************************************************************)
(* Persistence of a run: claims.                                           *)
(***************************************************************************)

\* the store has the Person, the Article and the PersonArticle row of card c
Persisted(c, P, A, PA) ==
    \E p \in P : \E r \in A : \E pa \in PA :
        /\ p.name = c.name /\ r.link = c.link
        /\ pa.person_id = p.id /\ pa.article_id = r.id

\* C22: persistence of a run is all-or-nothing: the rows of the store change
\* only in the step that ends a run whose ingest committed, and then the
\* rows of all its cards are there; a run whose ingest raised at any card
\* leaves the store as it was before the run.
C22_AllOrNothing ==
    [][/\ <<people, articles, person_articles>>' # <<people, articles, person_articles>>
            => (RunEnds /\ run_result' = "ok")
       /\ (RunEnds /\ run_result' = "ok")
            => \A i \in 1 .. Len(new_cards') :
                  Persisted(new_cards'[i], people', articles', person_articles')
       /\ (RunEnds /\ run_result' = "persist_failed")
            => <<people, articles, person_articles>>' = <<people, articles, person_articles>>]_vars

\* the ingest of a run raised at its second card, the first one, of a
\* Person the store does not have, being added and flushed
C22_Witness ==
    /\ run_result = "persist_failed"
    /\ failed_at = 2
    /\ Len(new_cards) >= 2
    /\ \A p \in people : p.name # new_cards[1].name

(***************************************************************************)
(* Image lookups: claims.                                                  *)
(***************************************************************************)

\* the resolution went to the network and is over
LookedUp == calls = 1 /\ lookups = 1

\* C23: the image sources are tried in a fixed order and fail independently:
\* the fallback source is queried whenever the primary source raised,
\* answered with an error status or had nothing usable, and the placeholder
\* is returned only after both sources were queried.
C23_FallbackAfterPrimaryFails ==
    LookedUp =>
        /\ queried[1] = "wikipedia"
        /\ lookup.primary # "url" => queried = <<"wikipedia", "commons">>
        /\ image_result = Avatar(image_name) => queried = <<"wikipedia", "commons">>

\* C24: when an image source returned a URL and the upload to the image
\* host fails, the resolved image reference is the URL the source returned.
C24_UploadFailureKeepsSourceUrl ==
    (LookedUp /\ lookup.filter = "ok" /\ lookup.upload = "fails") =>
        /\ lookup.primary = "url" => image_result = SourceUrl(image_name, "wikipedia")
        /\ (lookup.primary = "nothing" /\ lookup.fallback = "url")
              => image_result = SourceUrl(image_name, "commons")

(***************************************************************************)
(* Subscribers: claims.                                                    *)
(***************************************************************************)

\* C28: every subscriber that registered and whose client then disconnected
\* is eventually removed from the subscriber set, whether the disconnect came
\* while its stream was being consumed or before the stream was started.
C28_DepartedRemoved ==
    \A q \in Subscribers : (conn[q] \in {"gone", "abandoned"}) ~> (q \notin subscribers)

====
